---- MODULE Spec2Model ----
(***************************************************************************)
(* ensogrow-service: the plant routes of src/controllers/plantController.ts *)
(* and the custom plant controller, over the User and Plant collections.    *)
(* Every handler is a sequence of steps, one per awaited database or AI     *)
(* call, so that requests interleave where the code awaits.                 *)
(***************************************************************************)
EXTENDS Integers, Sequences, FiniteSets, TLC

VARIABLES users, plants, req

vars == <<users, plants, req>>

(* ------------------------------ bounds -------------------------------- *)
MaxCands == 2
MaxFresh == 2
MaxK == 2
MaxSurvey == 1
(* size of the plant store: a plant document weighs 2, a treatment write 1 *)
MaxLoad == 4

(* ------------------------------ values -------------------------------- *)
Uids == {"u1", "u2"}
NoUser == "none"
BadId == 0
PidInputs == 0..(MaxLoad \div 2)
Reqs == {1, 2}
PlantOps == {"detail", "toggle", "mark", "diag"}
AllOps == PlantOps \cup {"rec", "custom", "active"}
StepIdInputs == 1..(MaxFresh + MaxK)
NoPlant == [steps |-> <<>>, isActive |-> FALSE, isValid |-> FALSE,
            successRate |-> <<>>, v |-> -1]

(* successRate texts, as character sequences *)
RateTexts == {<<"9", "0", "%">>, <<" ", "5", "%">>, <<"h", "i">>}
Digits == {"0", "1", "2", "3", "4", "5", "6", "7", "8", "9"}
DigitVal(c) == CASE c = "0" -> 0 [] c = "1" -> 1 [] c = "2" -> 2 [] c = "3" -> 3
                 [] c = "4" -> 4 [] c = "5" -> 5 [] c = "6" -> 6 [] c = "7" -> 7
                 [] c = "8" -> 8 [] c = "9" -> 9
NaN == -1

(* parseInt(text): leading blanks are skipped, the digits that follow are
   read, NaN when there is none *)
RECURSIVE ReadDigits(_, _)
ReadDigits(t, acc) ==
    IF t # <<>> /\ Head(t) \in Digits
    THEN ReadDigits(Tail(t), 10 * acc + DigitVal(Head(t)))
    ELSE acc

RECURSIVE LeadingInt(_)
LeadingInt(t) ==
    IF t = <<>> THEN NaN
    ELSE IF Head(t) = " " THEN LeadingInt(Tail(t))
    ELSE IF Head(t) \in Digits THEN ReadDigits(t, 0)
    ELSE NaN

Idle == [op |-> "idle", pc |-> "idle", token |-> FALSE,
         uid |-> NoUser, pid |-> BadId, sid |-> 0,
         img |-> FALSE, survey |-> 0, snap |-> NoPlant, upd |-> <<>>,
         found |-> FALSE,
         ai |-> <<>>, cst |-> <<>>, saved |-> <<>>,
         status |-> 0, error |-> "", data |-> <<>>]

(* ------------------------------ helpers ------------------------------- *)
Range(s) == {s[i] : i \in DOMAIN s}

(* the query without its plants filter *)
OwnsAnyPlant(u, p) == u \in Uids /\ users[u].exists

(* User.findOne({ firebaseUid, plants: id }) *)
Owns(u, p) == u \in Uids /\ users[u].exists /\ p \in Range(users[u].plants)

(* Plant.findById(id) *)
Exists(p) == p \in 1..Len(plants)

(* Types.ObjectId.isValid(id) *)
IsValidId(p) == p # BadId

(* res.status(st).json(...): the handler returns, its locals are dropped *)
Respond(r, rec, st, err, dat) ==
    req' = [req EXCEPT ![r] = [rec EXCEPT !.pc = "done", !.status = st,
                                          !.error = err, !.data = dat,
                                          !.snap = NoPlant, !.upd = <<>>]]

Goto(r, rec, to) == req' = [req EXCEPT ![r] = [rec EXCEPT !.pc = to]]

(* authenticateUser accepted the token and set req.user; the handler reads
   its parameters *)
Begin(op, u, p, s) ==
    [Idle EXCEPT !.op = op, !.token = TRUE, !.uid = u, !.pid = p, !.sid = s]

Init ==
    /\ users = [u \in Uids |-> [exists |-> FALSE, survey |-> 0, plants |-> <<>>]]
    /\ plants = <<>>
    /\ req = [r \in Reqs |-> Idle]

(* express.json() rejects a body that is not JSON before authenticateUser
   runs, whatever token the request carries (tok), and the error middleware
   answers 500 *)
BodyRejected(r, op, tok) ==
    /\ req[r].pc = "idle"
    /\ Respond(r, [Idle EXCEPT !.op = op, !.token = tok], 500, "", <<>>)
    /\ UNCHANGED <<users, plants>>

(* authenticateUser: no bearer token, or one that verifyIdToken rejects *)
Unauthenticated(r, op) ==
    /\ req[r].pc = "idle"
    /\ Respond(r, [Idle EXCEPT !.op = op], 401, "", <<>>)
    /\ UNCHANGED <<users, plants>>

(* the response has been sent and nothing of the request is pending *)
Finish(r) ==
    /\ req[r].pc = "done"
    /\ req' = [req EXCEPT ![r] = Idle]
    /\ UNCHANGED <<users, plants>>

(* --------------------------- getPlantDetail --------------------------- *)
DetailCheck(r, u, p) ==
    /\ req[r].pc = "idle"
    /\ LET me == Begin("detail", u, p, 0) IN
       IF ~IsValidId(p) THEN Respond(r, me, 400, "", <<>>)
       ELSE IF ~Owns(u, p) THEN Respond(r, me, 403, "", <<>>)
       ELSE Goto(r, me, "find")
    /\ UNCHANGED <<users, plants>>

DetailFind(r) ==
    /\ req[r].op = "detail" /\ req[r].pc = "find"
    /\ IF ~Exists(req[r].pid) THEN Respond(r, req[r], 404, "Plant not found", <<>>)
       ELSE Respond(r, req[r], 200, "", <<req[r].pid>>)
    /\ UNCHANGED <<users, plants>>

(* ----------------------- togglePlantActiveStatus ---------------------- *)
(* new Types.ObjectId(id) throws on a malformed id: the catch answers 500 *)
ToggleCheck(r, u, p) ==
    /\ req[r].pc = "idle"
    /\ LET me == Begin("toggle", u, p, 0) IN
       IF ~IsValidId(p) THEN Respond(r, me, 500, "", <<>>)
       ELSE IF ~Owns(u, p) THEN Respond(r, me, 403, "", <<>>)
       ELSE Goto(r, me, "find")
    /\ UNCHANGED <<users, plants>>

ToggleFind(r) ==
    /\ req[r].op = "toggle" /\ req[r].pc = "find"
    /\ IF ~Exists(req[r].pid) THEN Respond(r, req[r], 404, "Plant not found", <<>>)
       ELSE Goto(r, [req[r] EXCEPT !.snap = plants[req[r].pid]], "save")
    /\ UNCHANGED <<users, plants>>

(* a save that writes the whole document as it was read *)
ToggleSaveWhole(r) ==
    /\ req[r].op = "toggle" /\ req[r].pc = "save"
    /\ plants' = [plants EXCEPT ![req[r].pid] =
                     [req[r].snap EXCEPT !.isActive = ~req[r].snap.isActive]]
    /\ Respond(r, req[r], 200, "", <<req[r].pid>>)
    /\ UNCHANGED users

(* plant.isActive = !plant.isActive; plant.save() writes the one path *)
ToggleSave(r) ==
    /\ req[r].op = "toggle" /\ req[r].pc = "save"
    /\ plants' = [plants EXCEPT ![req[r].pid].isActive = ~req[r].snap.isActive]
    /\ Respond(r, req[r], 200, "", <<req[r].pid>>)
    /\ UNCHANGED users

(* ------------------------- markStepAsCompleted ------------------------ *)
(* the handler without its ownership query *)
MarkCheckUnguarded(r, u, p) ==
    /\ req[r].pc = "idle"
    /\ LET me == Begin("mark", u, p, 0) IN
       IF ~IsValidId(p) THEN Respond(r, me, 500, "", <<>>)
       ELSE Goto(r, me, "find")
    /\ UNCHANGED <<users, plants>>

MarkCheck(r, u, p) ==
    /\ req[r].pc = "idle"
    /\ LET me == Begin("mark", u, p, 0) IN
       IF ~IsValidId(p) THEN Respond(r, me, 500, "", <<>>)
       ELSE IF ~Owns(u, p) THEN Respond(r, me, 403, "", <<>>)
       ELSE Goto(r, me, "find")
    /\ UNCHANGED <<users, plants>>

(* plant.steps.find(s => s.id === Number(stepId)): index of the first match, 0 if none *)
StepIndex(steps, s) ==
    IF \E i \in DOMAIN steps : steps[i].id = s
    THEN CHOOSE i \in DOMAIN steps :
            /\ steps[i].id = s
            /\ \A j \in 1..(i - 1) : steps[j].id # s
    ELSE 0

(* s is the request's stepId, first read here *)
MarkFind(r, s) ==
    /\ req[r].op = "mark" /\ req[r].pc = "find"
    /\ LET me == [req[r] EXCEPT !.sid = s] IN
       IF ~Exists(req[r].pid) THEN Respond(r, req[r], 404, "Plant not found", <<>>)
       ELSE IF StepIndex(plants[req[r].pid].steps, s) = 0
            THEN Respond(r, me, 404, "Step not found", <<>>)
       ELSE Goto(r, [me EXCEPT !.snap = plants[req[r].pid]], "save")
    /\ UNCHANGED <<users, plants>>

(* step.isCompleted = true; plant.save(): an unmodified document is not
   written; a modified array element is written by position, under the
   version the document was read at *)
MarkSave(r) ==
    /\ req[r].op = "mark" /\ req[r].pc = "save"
    /\ LET p == req[r].pid
           i == StepIndex(req[r].snap.steps, req[r].sid) IN
       IF req[r].snap.steps[i].isCompleted
       THEN /\ Respond(r, req[r], 200, "", <<p>>)
            /\ UNCHANGED plants
       ELSE IF plants[p].v # req[r].snap.v
       THEN /\ Respond(r, req[r], 500, "", <<>>)
            /\ UNCHANGED plants
       ELSE /\ plants' = [plants EXCEPT ![p].steps[i].isCompleted = TRUE]
            /\ Respond(r, req[r], 200, "", <<p>>)
    /\ UNCHANGED users

(* -------------------------- analyzePlantImage ------------------------- *)
DiagCheck(r, u, p, image) ==
    /\ req[r].pc = "idle"
    /\ LET me == [Begin("diag", u, p, 0) EXCEPT !.img = image] IN
       IF ~image THEN Respond(r, me, 400, "", <<>>)
       ELSE IF ~IsValidId(p) THEN Respond(r, me, 400, "", <<>>)
       ELSE IF ~Owns(u, p) THEN Respond(r, me, 403, "", <<>>)
       ELSE Goto(r, me, "find")
    /\ UNCHANGED <<users, plants>>

DiagFind(r) ==
    /\ req[r].op = "diag" /\ req[r].pc = "find"
    /\ IF ~Exists(req[r].pid) THEN Respond(r, req[r], 404, "Plant not found", <<>>)
       ELSE Goto(r, [req[r] EXCEPT !.snap = plants[req[r].pid]], "ai")
    /\ UNCHANGED <<users, plants>>

(* plant.steps.slice().reverse().find(step => step.isCompleted): its index, 0 if none *)
LastCompleted(steps) ==
    IF \E i \in DOMAIN steps : steps[i].isCompleted
    THEN CHOOSE i \in DOMAIN steps :
            /\ steps[i].isCompleted
            /\ \A j \in (i + 1)..Len(steps) : ~steps[j].isCompleted
    ELSE 0

(* analysis.treatmentSteps.map((step, index) => ({ id: plant.steps.length + index + 1, ... })) *)
NewSteps(steps, k, gen) ==
    [i \in 1..k |-> [id |-> Len(steps) + i, isCompleted |-> FALSE,
                     gen |-> gen, n |-> i]]

(* Array.prototype.slice(0, e) *)
Slice(steps, e) == SubSeq(steps, 1, IF e < Len(steps) THEN e ELSE Len(steps))

(* a cut that takes the id of the last completed step for its 0-based index *)
KeptStepsBelowId(steps) ==
    LET l == LastCompleted(steps) IN
    Slice(steps, IF l # 0 THEN steps[l].id - 1 ELSE 0)

(* plant.steps.slice(0, lastCompletedStep ? lastCompletedStep.id : 0) *)
KeptSteps(steps) ==
    LET l == LastCompleted(steps) IN
    Slice(steps, IF l # 0 THEN steps[l].id ELSE 0)

(* plant.steps = [...kept, ...newSteps] *)
MergeSteps(steps, k, gen) == KeptSteps(steps) \o NewSteps(steps, k, gen)

(* what the AI call and the parsing of its text can come to: a rejected
   call, a call without text, a text that does not parse (the parser's
   message may quote the text or a position) *)
AiErrors == {"error", "error403", "errorKey", "notext",
             "unparsable", "unparsable403", "unparsableKey"}

(* the texts the catch blocks look for, as far as the message of the thrown
   error has them; a parse failure is rethrown as
   `Failed to parse Gemini response: ${parseError.message}` *)
Message(kind) ==
    CASE kind = "error403" -> {"403"}
      [] kind = "errorKey" -> {"API key"}
      [] kind = "unparsable" -> {"parse"}
      [] kind = "unparsable403" -> {"parse", "403"}
      [] kind = "unparsableKey" -> {"parse", "API key"}
      [] OTHER -> {}

(* throw new Error('Missing required fields in recommendation'): the text
   thrown when a plant object lacks the given field *)
MissingFieldError(field) == "Missing required fields in recommendation"

(* the catch block: error.message.includes('403' / 'API key' / 'parse') *)
CatchStatus(kind) ==
    IF "403" \in Message(kind) THEN 403
    ELSE IF "API key" \in Message(kind) THEN 401
    ELSE IF "parse" \in Message(kind) THEN 422
    ELSE 500

(* the analysis: needsTreatment and the number of treatmentSteps it has *)
DiagOutcomes ==
    [kind : AiErrors, k : {0}]
    \cup [kind : {"healthy", "treat"}, k : 0..MaxK]

(* analysis.treatmentSteps is not empty *)
HasTreatmentSteps(o) == o.kind \in {"healthy", "treat"} /\ o.k > 0

(* analysis.needsTreatment *)
NeedsTreatment(o) == o.kind = "treat"

DiagStatus(kind) ==
    IF kind = "healthy" THEN 200
    ELSE IF "403" \in Message(kind) THEN 403
    ELSE IF "API key" \in Message(kind) THEN 401
    ELSE IF "parse" \in Message(kind) THEN 422
    ELSE 500

(* treatment writes done or in flight, over all plants *)
DiagWrites ==
    LET done[i \in 0..Len(plants)] ==
          IF i = 0 THEN 0 ELSE done[i - 1] + plants[i].v
    IN done[Len(plants)]
       + Cardinality({r \in Reqs : req[r].op = "diag" /\ req[r].pc = "save"})

CountOf(s, x) == Cardinality({i \in DOMAIN s : s[i] = x})

(* plant.save() calls of new plants that are issued and not yet answered *)
PendingSaves ==
    LET n[S \in SUBSET Reqs] ==
          IF S = {} THEN 0
          ELSE LET r == CHOOSE x \in S : TRUE IN
               n[S \ {r}]
               + (IF req[r].op = "rec" THEN CountOf(req[r].cst, "save")
                  ELSE IF req[r].op = "custom" /\ req[r].pc = "save" THEN 1
                  ELSE 0)
    IN n[Reqs]

Load == 2 * (Len(plants) + PendingSaves) + DiagWrites

(* room for k more plants *)
Room(k) == Load + 2 * k <= MaxLoad

DiagRoom == Load + 1 <= MaxLoad

DiagAI(r, o) ==
    /\ req[r].op = "diag" /\ req[r].pc = "ai"
    /\ LET me == [req[r] EXCEPT !.ai = <<o>>] IN
       IF ~NeedsTreatment(o)
       THEN Respond(r, me, DiagStatus(o.kind),
                    IF o.kind = "healthy" THEN "" ELSE o.kind, <<>>)
       ELSE /\ DiagRoom
            /\ Goto(r, [me EXCEPT !.upd = MergeSteps(req[r].snap.steps, o.k,
                                                     req[r].snap.v + 1)], "save")
    /\ UNCHANGED <<users, plants>>

(* plant.save(): the whole steps array is written under the version the
   document was read at, and the version is incremented *)
DiagSave(r) ==
    /\ req[r].op = "diag" /\ req[r].pc = "save"
    /\ LET p == req[r].pid IN
       IF req[r].upd = req[r].snap.steps
       THEN /\ Respond(r, req[r], 200, "", <<p>>)
            /\ UNCHANGED plants
       ELSE IF plants[p].v # req[r].snap.v
       THEN /\ Respond(r, req[r], 500, "", <<>>)
            /\ UNCHANGED plants
       ELSE /\ plants' = [plants EXCEPT ![p].steps = req[r].upd,
                                        ![p].v = @ + 1]
            /\ Respond(r, req[r], 200, "", <<p>>)
    /\ UNCHANGED users

(* ------------------- AI responses and their parsing ------------------- *)
(* one plant object of the AI's JSON: n steps that carry isCompleted b and
   title t, the isValid value as sent, the required field it lacks *)
Rec(rate, n, b, t, valid, lacks) ==
    [successRate |-> rate,
     steps |-> [i \in 1..n |-> [isCompleted |-> b, title |-> t]],
     isValid |-> valid, error |-> "", missing |-> lacks]

BatchRecs ==
    {Rec(<<"9", "0", "%">>, MaxFresh, TRUE, "t", "true", "none"),
     Rec(<<" ", "5", "%">>, 1, FALSE, "t", "false", "none"),
     Rec(<<"h", "i">>, 0, FALSE, "t", "absent", "none"),
     Rec(<<"9", "0", "%">>, 1, FALSE, "", "true", "none"),
     Rec(<<" ", "5", "%">>, 1, FALSE, "t", "true", "imageUrl")}

SeqsUpTo(S, n) == UNION {[1..m -> S] : m \in 0..n}

RecOutcomes ==
    [kind : AiErrors, recs : {<<>>}]
    \cup [kind : {"parsed"}, recs : SeqsUpTo(BatchRecs, MaxCands)]

(* String(x).trim() *)
RECURSIVE TrimLeft(_)
TrimLeft(t) == IF t # <<>> /\ Head(t) = " " THEN TrimLeft(Tail(t)) ELSE t

RECURSIVE TrimRight(_)
TrimRight(t) ==
    IF t # <<>> /\ t[Len(t)] = " " THEN TrimRight(SubSeq(t, 1, Len(t) - 1)) ELSE t

Trim(t) == TrimRight(TrimLeft(t))

(* the steps with the isCompleted the AI sent *)
ProcessStepsAsSent(aiSteps) ==
    [i \in 1..Len(aiSteps) |->
        [id |-> i, isCompleted |-> aiSteps[i].isCompleted, gen |-> 0, n |-> i]]

(* rec.steps.map((step, index) => ({ id: index + 1, ..., isCompleted: false })) *)
ProcessSteps(aiSteps) ==
    [i \in 1..Len(aiSteps) |->
        [id |-> i, isCompleted |-> FALSE, gen |-> 0, n |-> i]]

(* the schema's required validators: an empty title fails plant.save() *)
Validates(rec) == \A i \in DOMAIN rec.steps : rec.steps[i].title # ""

(* Mongoose casts the isValid value to Boolean *)
CastBool(x) == x = "true"

(* a test for a missing isValid only *)
TruthyUnlessAbsent(x) == x # "absent"

(* !x of the isValid value as sent *)
Truthy(x) == x \in {"true", "strfalse"}

(* the plant with the isValid the AI sent *)
NewPlantAsSent(rec) ==
    [steps |-> ProcessSteps(rec.steps), isActive |-> FALSE,
     isValid |-> CastBool(rec.isValid),
     successRate |-> Trim(rec.successRate), v |-> 0]

(* new Plant({ ..., steps: processedSteps, isValid: true }) *)
NewPlant(rec) ==
    [steps |-> ProcessSteps(rec.steps), isActive |-> FALSE, isValid |-> TRUE,
     successRate |-> Trim(rec.successRate), v |-> 0]

(* new Plant({ ..., isValid: parsedRecommendation.isValid }) *)
NewCustomPlant(rec) ==
    [NewPlant(rec) EXCEPT !.isValid = CastBool(rec.isValid)]

(* ----------------------- getPlantRecommendations ---------------------- *)
SurveyInputs == 0..MaxSurvey

(* the survey fields as one value, 0 for a missing or zero-valued field *)
RecCheck(r, u, s) ==
    /\ req[r].pc = "idle"
    /\ LET me == [Begin("rec", u, BadId, 0) EXCEPT !.survey = s] IN
       IF s = 0 THEN Respond(r, me, 400, "", <<>>)
       ELSE Goto(r, [me EXCEPT !.found = users[u].exists], "saveUser")
    /\ UNCHANGED <<users, plants>>

(* a handler that goes to the AI call without saving the user *)
RecSaveUserDeferred(r) ==
    /\ req[r].op = "rec" /\ req[r].pc = "saveUser"
    /\ Goto(r, req[r], "ai")
    /\ UNCHANGED <<users, plants>>

(* user.save(): an insert when findOne found no user (firebaseUid is
   unique), an update of the survey fields otherwise *)
RecSaveUser(r) ==
    /\ req[r].op = "rec" /\ req[r].pc = "saveUser"
    /\ LET u == req[r].uid IN
       IF ~req[r].found /\ users[u].exists
       THEN /\ Respond(r, req[r], 500, "", <<>>)
            /\ UNCHANGED users
       ELSE /\ users' = [users EXCEPT ![u].exists = TRUE,
                                      ![u].survey = req[r].survey]
            /\ Goto(r, req[r], "ai")
    /\ UNCHANGED plants

Settled(c) == c \in {"done", "failed"}

(* a batch that answers once every candidate is settled, with what was saved *)
AfterCandSettled(me, i, c) ==
    LET cst == [me.cst EXCEPT ![i] = c]
        all == \A j \in DOMAIN cst : Settled(cst[j])
    IN [me EXCEPT !.cst = cst, !.status = IF all THEN 200 ELSE 0,
                  !.data = IF all THEN me.saved ELSE <<>>,
                  !.pc = IF all THEN "done" ELSE "batch"]

(* the state of the request after candidate i reached state c: the first
   rejection answers 500, the last fulfilment answers 200 *)
AfterCand(me, i, c) ==
    LET cst == [me.cst EXCEPT ![i] = c]
        st == IF me.status # 0 THEN me.status
              ELSE IF c = "failed" THEN 500
              ELSE IF \A j \in DOMAIN cst : cst[j] = "done" THEN 200
              ELSE 0
    IN [me EXCEPT !.cst = cst, !.status = st,
                  !.data = IF st = 200 THEN me.saved ELSE <<>>,
                  !.pc = IF \A j \in DOMAIN cst : Settled(cst[j])
                         THEN "done" ELSE "batch"]

RecAI(r, o) ==
    /\ req[r].op = "rec" /\ req[r].pc = "ai"
    /\ LET me == [req[r] EXCEPT !.ai = o.recs] IN
       IF o.kind # "parsed" THEN Respond(r, me, CatchStatus(o.kind), o.kind, <<>>)
       ELSE IF \E i \in DOMAIN o.recs : o.recs[i].missing # "none"
            THEN LET i == CHOOSE j \in DOMAIN o.recs :
                            /\ o.recs[j].missing # "none"
                            /\ \A h \in 1..(j - 1) : o.recs[h].missing = "none"
                 IN Respond(r, me, CatchStatus("unparsable"),
                            MissingFieldError(o.recs[i].missing), <<>>)
       ELSE IF o.recs = <<>> THEN Respond(r, me, 200, "", <<>>)
       ELSE /\ Room(Len(o.recs))
            /\ Goto(r, [me EXCEPT !.cst = [i \in DOMAIN o.recs |-> "save"],
                                  !.saved = [i \in DOMAIN o.recs |-> BadId]],
                    "batch")
    /\ UNCHANGED <<users, plants>>

(* await plant.save() of candidate i *)
RecCandSave(r, i) ==
    /\ req[r].op = "rec" /\ req[r].pc = "batch"
    /\ i \in DOMAIN req[r].cst /\ req[r].cst[i] = "save"
    /\ IF ~Validates(req[r].ai[i])
       THEN /\ req' = [req EXCEPT ![r] = AfterCand(req[r], i, "failed")]
            /\ UNCHANGED plants
       ELSE /\ plants' = Append(plants, NewPlant(req[r].ai[i]))
            /\ req' = [req EXCEPT ![r] =
                   AfterCand([req[r] EXCEPT !.saved[i] = Len(plants) + 1],
                             i, "push")]
    /\ UNCHANGED users

(* the $push without its firebaseUid filter: into every profile *)
RecCandPushAll(r, i) ==
    /\ req[r].op = "rec" /\ req[r].pc = "batch"
    /\ i \in DOMAIN req[r].cst /\ req[r].cst[i] = "push"
    /\ users' = [u \in Uids |->
                   IF users[u].exists
                   THEN [users[u] EXCEPT !.plants = Append(@, req[r].saved[i])]
                   ELSE users[u]]
    /\ req' = [req EXCEPT ![r] = AfterCand(req[r], i, "done")]
    /\ UNCHANGED plants

(* a candidate that gives up its push once the batch is answered as failed *)
RecCandPushAborting(r, i) ==
    /\ req[r].op = "rec" /\ req[r].pc = "batch"
    /\ i \in DOMAIN req[r].cst /\ req[r].cst[i] = "push"
    /\ users' = IF req[r].status >= 400 THEN users
                ELSE [users EXCEPT ![req[r].uid].plants = Append(@, req[r].saved[i])]
    /\ req' = [req EXCEPT ![r] = AfterCand(req[r], i, "done")]
    /\ UNCHANGED plants

(* await User.findOneAndUpdate({ firebaseUid }, { $push: { plants: plant._id } }) *)
RecCandPush(r, i) ==
    /\ req[r].op = "rec" /\ req[r].pc = "batch"
    /\ i \in DOMAIN req[r].cst /\ req[r].cst[i] = "push"
    /\ users' = [users EXCEPT ![req[r].uid].plants = Append(@, req[r].saved[i])]
    /\ req' = [req EXCEPT ![r] = AfterCand(req[r], i, "done")]
    /\ UNCHANGED plants

(* --------------------- getCustomPlantRecommendation ------------------- *)
CustomRecs ==
    {Rec(<<"9", "0", "%">>, MaxFresh, TRUE, "t", "true", "none"),
     Rec(<<"h", "i">>, 1, FALSE, "t", "strfalse", "none"),
     Rec(<<" ", "5", "%">>, 1, FALSE, "t", "absent", "none"),
     Rec(<<" ", "5", "%">>, 1, FALSE, "t", "true", "name"),
     [Rec(<<>>, 0, FALSE, "t", "false", "name") EXCEPT !.error = "reason"],
     Rec(<<>>, 0, FALSE, "t", "false", "name")}

CustomOutcomes ==
    [kind : AiErrors, recs : {<<>>}]
    \cup [kind : {"parsed"}, recs : {<<c>> : c \in CustomRecs}]

DefaultReason == "Please provide a valid plant name"

(* parsedRecommendation.error || 'Please provide a valid plant name' *)
RejectionReason(rec) == IF rec.error # "" THEN rec.error ELSE DefaultReason

(* the request is validated, the AI answers and the answer is parsed *)
CustomAI(r, u, fields, o) ==
    /\ req[r].pc = "idle"
    /\ LET me == [Begin("custom", u, BadId, 0) EXCEPT !.ai = o.recs] IN
       IF ~fields THEN Respond(r, [me EXCEPT !.ai = <<>>], 400, "", <<>>)
       ELSE IF o.kind # "parsed" THEN Respond(r, me, CatchStatus(o.kind), o.kind, <<>>)
       ELSE IF ~Truthy(o.recs[1].isValid)
            THEN Respond(r, me, 400, RejectionReason(o.recs[1]), <<>>)
       ELSE IF o.recs[1].missing # "none"
            THEN Respond(r, me, CatchStatus("unparsable"),
                         MissingFieldError(o.recs[1].missing), <<>>)
       ELSE /\ Room(1)
            /\ Goto(r, me, "save")
    /\ UNCHANGED <<users, plants>>

(* a save that also pushes the new plant into the caller's profile *)
CustomSaveAndPush(r) ==
    /\ req[r].op = "custom" /\ req[r].pc = "save"
    /\ IF ~Validates(req[r].ai[1])
       THEN /\ Respond(r, req[r], 500, "", <<>>)
            /\ UNCHANGED <<plants, users>>
       ELSE /\ plants' = Append(plants, NewCustomPlant(req[r].ai[1]))
            /\ users' = [users EXCEPT ![req[r].uid].exists = TRUE,
                                      ![req[r].uid].plants = Append(@, Len(plants) + 1)]
            /\ Respond(r, [req[r] EXCEPT !.saved = <<Len(plants) + 1>>], 200, "",
                       <<Len(plants) + 1>>)

(* await plant.save() *)
CustomSave(r) ==
    /\ req[r].op = "custom" /\ req[r].pc = "save"
    /\ IF ~Validates(req[r].ai[1])
       THEN /\ Respond(r, req[r], 500, "", <<>>)
            /\ UNCHANGED plants
       ELSE /\ plants' = Append(plants, NewCustomPlant(req[r].ai[1]))
            /\ Respond(r, [req[r] EXCEPT !.saved = <<Len(plants) + 1>>], 200, "",
                       <<Len(plants) + 1>>)
    /\ UNCHANGED users

(* ------------------- getActivePlantRecommendations -------------------- *)
(* populate without its match: every reference whose plant exists *)
RECURSIVE PopulateAll(_)
PopulateAll(refs) ==
    IF refs = <<>> THEN <<>>
    ELSE IF Exists(Head(refs))
         THEN <<Head(refs)>> \o PopulateAll(Tail(refs))
         ELSE PopulateAll(Tail(refs))

(* User.findOne({ firebaseUid }).populate({ path: 'plants', match: { isActive: true } }):
   populate drops the references whose plant fails the match *)
RECURSIVE Populate(_)
Populate(refs) ==
    IF refs = <<>> THEN <<>>
    ELSE IF Exists(Head(refs)) /\ plants[Head(refs)].isActive
         THEN <<Head(refs)>> \o Populate(Tail(refs))
         ELSE Populate(Tail(refs))

ActiveList(r, u) ==
    /\ req[r].pc = "idle"
    /\ Respond(r, Begin("active", u, BadId, 0), 200, "",
               IF users[u].exists THEN Populate(users[u].plants) ELSE <<>>)
    /\ UNCHANGED <<users, plants>>

Ops(r, U, P, RO, CO) ==
    \/ Finish(r)
    \/ \E op \in AllOps, tok \in BOOLEAN : BodyRejected(r, op, tok)
    \/ \E op \in AllOps : Unauthenticated(r, op)
    \/ \E u \in U, p \in P : DetailCheck(r, u, p)
    \/ DetailFind(r)
    \/ \E u \in U, p \in P : ToggleCheck(r, u, p)
    \/ ToggleFind(r)
    \/ ToggleSave(r)
    \/ \E u \in U, p \in P : MarkCheck(r, u, p)
    \/ \E s \in StepIdInputs : MarkFind(r, s)
    \/ MarkSave(r)
    \/ \E u \in U, p \in P, image \in BOOLEAN : DiagCheck(r, u, p, image)
    \/ DiagFind(r)
    \/ \E o \in DiagOutcomes : DiagAI(r, o)
    \/ DiagSave(r)
    \/ \E u \in U, sv \in SurveyInputs : RecCheck(r, u, sv)
    \/ RecSaveUser(r)
    \/ \E o \in RO : RecAI(r, o)
    \/ \E i \in 1..MaxCands : RecCandSave(r, i)
    \/ \E i \in 1..MaxCands : RecCandPush(r, i)
    \/ \E u \in U, fields \in BOOLEAN, o \in CO : CustomAI(r, u, fields, o)
    \/ CustomSave(r)
    \/ \E u \in U : ActiveList(r, u)

(* requests one after the other *)
Next == Ops(1, Uids, PidInputs, RecOutcomes, CustomOutcomes)

Spec == Init /\ [][Next]_vars

(* two requests of one user in flight on the same plant: the handlers
   interleave at every await *)
ConcOutcomes ==
    {[kind |-> "parsed",
      recs |-> <<Rec(<<"9", "0", "%">>, MaxFresh, TRUE, "t", "true", "none")>>]}

ConcDiagOutcomes == {o \in DiagOutcomes : o.kind \in {"treat", "healthy"}}

OpsConc(r, U, P) ==
    \/ Finish(r)
    \/ \E u \in U, p \in P : ToggleCheck(r, u, p)
    \/ ToggleFind(r)
    \/ ToggleSave(r)
    \/ \E u \in U, p \in P : MarkCheck(r, u, p)
    \/ \E s \in StepIdInputs : MarkFind(r, s)
    \/ MarkSave(r)
    \/ \E u \in U, p \in P : DiagCheck(r, u, p, TRUE)
    \/ DiagFind(r)
    \/ \E o \in ConcDiagOutcomes : DiagAI(r, o)
    \/ DiagSave(r)
    \/ \E u \in U, sv \in SurveyInputs \ {0} : RecCheck(r, u, sv)
    \/ RecSaveUser(r)
    \/ \E o \in ConcOutcomes : RecAI(r, o)
    \/ \E i \in 1..MaxCands : RecCandSave(r, i)
    \/ \E i \in 1..MaxCands : RecCandPush(r, i)

NextConc == \E r \in Reqs : OpsConc(r, {"u1"}, {1})

SpecConc == Init /\ [][NextConc]_vars

(* recommendations requests one after the other, with one survey more than
   SurveyInputs has, so that a profile is overwritten with other values *)
ResurveyInputs == 0..(MaxSurvey + 1)

NextResurvey ==
    \/ Finish(1)
    \/ \E u \in Uids, sv \in ResurveyInputs : RecCheck(1, u, sv)
    \/ RecSaveUser(1)
    \/ \E o \in RecOutcomes : RecAI(1, o)
    \/ \E i \in 1..MaxCands : RecCandSave(1, i)
    \/ \E i \in 1..MaxCands : RecCandPush(1, i)

SpecResurvey == Init /\ [][NextResurvey]_vars

(* ============================== claims ================================ *)
(* membership of p in u's plants reference set, read off the stored user *)
InPlantsSet(u, p) ==
    /\ u \in Uids
    /\ users[u].exists
    /\ \E i \in DOMAIN users[u].plants : users[u].plants[i] = p

OwnedByOther(u, p) == \E w \in Uids \ {u} : InPlantsSet(w, p)

(* C1 as claimed: a per-plant operation of an authenticated principal
   answers 200 only to a principal whose plants set holds the identifier,
   and answers 403 to every principal whose set does not hold it. *)
C1_AlwaysForbidden ==
    \A r \in Reqs :
        (req[r].op \in PlantOps /\ req[r].pc = "done" /\ req[r].uid \in Uids)
        => /\ req[r].status = 200 => InPlantsSet(req[r].uid, req[r].pid)
           /\ ~InPlantsSet(req[r].uid, req[r].pid) => req[r].status = 403

(* C1 amended: a per-plant operation returns the plant or changes the plant
   store only for a principal whose plants set holds the identifier; a
   principal whose set does not hold it is answered 403 when the identifier
   is well-formed and, for diagnose, the request carries image data, and
   400 or 500 otherwise, the plant store unchanged in each case. *)
C1_OwnershipGuard ==
    [][\A r \in Reqs :
         LET b == req'[r] IN
         (b.op \in PlantOps /\ b.uid \in Uids /\ b # req[r])
         => /\ (plants' # plants \/ b.status = 200) => InPlantsSet(b.uid, b.pid)
            /\ (b.pc = "done" /\ ~InPlantsSet(b.uid, b.pid))
               => /\ plants' = plants
                  /\ b.status \in {400, 403, 500}
                  /\ (b.pid # BadId /\ (b.op = "diag" => b.img)) => b.status = 403]_vars

C1_Witness ==
    \E r \in Reqs :
        /\ req[r].op = "diag" /\ req[r].pc = "done" /\ req[r].img
        /\ req[r].uid \in Uids
        /\ OwnedByOther(req[r].uid, req[r].pid)
        /\ ~InPlantsSet(req[r].uid, req[r].pid)
        /\ req[r].status = 403

(* C2: a mark-step-completed request for an existing plant that is not in
   the principal's plants set is answered 403 in its first step, and that
   step, the whole of the request, leaves the plant store as it was. *)
C2_NonOwnerMarkLeavesPlant ==
    [][\A r \in Reqs :
         LET b == req'[r] IN
         (req[r].pc = "idle" /\ b.op = "mark" /\ b.uid \in Uids
            /\ b.pid \in 1..Len(plants) /\ ~InPlantsSet(b.uid, b.pid))
         => /\ b.pc = "done"
            /\ b.status = 403
            /\ plants' = plants]_vars

C2_Witness ==
    \E r \in Reqs :
        /\ req[r].op = "mark" /\ req[r].pc = "done" /\ req[r].status = 403
        /\ req[r].pid \in 1..Len(plants)
        /\ OwnedByOther(req[r].uid, req[r].pid)
        /\ plants[req[r].pid].steps # <<>>

(* the same step document: the subdocument keeps its identity *)
SameStep(a, b) == a.gen = b.gen /\ a.n = b.n

(* C3 as claimed: once the stored isCompleted of a step is true, it is true
   in every later state in which the step is still in the list. *)
C3_CompletedStaysCompleted ==
    [][\A p \in 1..Len(plants) :
         \A i \in DOMAIN plants[p].steps : \A j \in DOMAIN plants'[p].steps :
            (SameStep(plants[p].steps[i], plants'[p].steps[j])
               /\ plants[p].steps[i].isCompleted)
            => plants'[p].steps[j].isCompleted]_vars

(* C4 as claimed: in every reachable state the step ids of one plant's step
   list are pairwise distinct positive integers. *)
C4_StepIdsDistinct ==
    \A p \in 1..Len(plants) :
        \A i, j \in DOMAIN plants[p].steps :
            /\ plants[p].steps[i].id >= 1
            /\ i # j => plants[p].steps[i].id # plants[p].steps[j].id

(* C5: a plant that comes into the store was built from one parsed plant
   object of an AI response: it has as many steps as that object, with ids
   1..N in array order, and every isCompleted false. *)
C5_FreshStepsNumbered ==
    [][\A p \in (Len(plants) + 1)..Len(plants') :
         /\ \A j \in DOMAIN plants'[p].steps :
               /\ plants'[p].steps[j].id = j
               /\ plants'[p].steps[j].isCompleted = FALSE
         /\ \E r \in Reqs : \E i \in DOMAIN req'[r].saved :
               /\ req'[r].op \in {"rec", "custom"}
               /\ req'[r].saved[i] = p
               /\ Len(plants'[p].steps) = Len(req[r].ai[i].steps)]_vars

C5_Witness ==
    \E r \in Reqs : \E i \in DOMAIN req[r].saved :
        /\ req[r].op = "rec"
        /\ req[r].saved[i] \in 1..Len(plants)
        /\ Len(req[r].ai[i].steps) >= 2
        /\ \A j \in DOMAIN req[r].ai[i].steps : req[r].ai[i].steps[j].isCompleted
        /\ Len(plants[req[r].saved[i]].steps) = Len(req[r].ai[i].steps)
        /\ \A j \in DOMAIN plants[req[r].saved[i]].steps :
              ~plants[req[r].saved[i]].steps[j].isCompleted

(* a diagnose request whose save writes the step list in this step *)
DiagWrote(r) ==
    /\ req[r].op = "diag" /\ req[r].pc = "save"
    /\ req'[r].pc = "done" /\ req'[r].status = 200

(* C6 as claimed: a diagnose request that needs treatment keeps every step
   that was in the step list before it, with the same id. *)
C6_PriorStepsKept ==
    [][\A r \in Reqs :
         DiagWrote(r)
         => \A i \in DOMAIN plants[req[r].pid].steps :
               \E j \in DOMAIN plants'[req[r].pid].steps :
                  /\ SameStep(plants[req[r].pid].steps[i], plants'[req[r].pid].steps[j])
                  /\ plants'[req[r].pid].steps[j].id = plants[req[r].pid].steps[i].id]_vars

(* position of the last completed step of a list, 0 when there is none *)
LastDonePos(steps) ==
    IF \E i \in DOMAIN steps : steps[i].isCompleted
    THEN CHOOSE i \in DOMAIN steps :
            steps[i].isCompleted /\ \A j \in DOMAIN steps : steps[j].isCompleted => j <= i
    ELSE 0

(* C7 as claimed: the k new steps stand, in their generated order, right
   after the last completed step, with ids L+1..L+k, L the length of the
   list before, and isCompleted false. *)
C7_NewStepsAfterLastCompleted ==
    [][\A r \in Reqs :
         DiagWrote(r)
         => LET old == plants[req[r].pid].steps
                new == plants'[req[r].pid].steps
                k == req[r].ai[1].k
                q == LastDonePos(new)
            IN /\ Len(new) >= q + k
               /\ \A i \in 1..k :
                     /\ new[q + i].gen = plants'[req[r].pid].v
                     /\ new[q + i].n = i
                     /\ new[q + i].id = Len(old) + i
                     /\ new[q + i].isCompleted = FALSE]_vars

(* C8: no plant whose isValid is false is referenced in a user's plants set. *)
C8_InvalidNeverReferenced ==
    \A u \in Uids : \A i \in DOMAIN users[u].plants :
        users[u].plants[i] \in 1..Len(plants)
        => plants[users[u].plants[i]].isValid

C8_Witness ==
    /\ \E p \in 1..Len(plants) : ~plants[p].isValid
    /\ \E u \in Uids : users[u].plants # <<>>

(* C9: a custom-plant request whose AI response parses to an object with
   isValid false is answered 400 with the reason the AI gave, or the default
   reason when it gave none, and the plant store is unchanged. *)
C9_RejectedCustomPlant ==
    [][\A r \in Reqs :
         LET b == req'[r] IN
         (req[r].pc = "idle" /\ b.op = "custom" /\ b.ai # <<>>
            /\ b.ai[1].isValid = "false")
         => /\ b.pc = "done"
            /\ b.status = 400
            /\ b.error = (IF b.ai[1].error = "" THEN "Please provide a valid plant name"
                          ELSE b.ai[1].error)
            /\ plants' = plants]_vars

C9_Witness ==
    \E r \in Reqs :
        /\ req[r].op = "custom" /\ req[r].pc = "done" /\ req[r].ai # <<>>
        /\ req[r].ai[1].isValid = "false" /\ req[r].ai[1].error = "reason"
        /\ req[r].status = 400 /\ req[r].error = "reason"
        /\ plants # <<>>

(* i may stand before j in a list ordered by descending leading integer,
   texts without one last *)
RateOrdered(a, b) ==
    \/ LeadingInt(b) = NaN
    \/ LeadingInt(a) # NaN /\ LeadingInt(a) >= LeadingInt(b)

(* C10 as claimed: the list the recommendations operation returns is in
   descending order of the leading integer of successRate, texts without
   one last, and has at most 5 entries. *)
C10_ResponseRanked ==
    \A r \in Reqs :
        (req[r].op = "rec" /\ req[r].status = 200)
        => /\ Len(req[r].data) <= 5
           /\ \A i, j \in DOMAIN req[r].data :
                 i < j => RateOrdered(plants[req[r].data[i]].successRate,
                                      plants[req[r].data[j]].successRate)

(* C11: a batch recommendations request one of whose candidates has failed
   is answered with a failure status, never 200, and without data, whichever
   candidate failed and whatever the other candidates have done or do. *)
C11_AnyFailureFailsBatch ==
    \A r \in Reqs :
        (req[r].op = "rec" /\ \E i \in DOMAIN req[r].cst : req[r].cst[i] = "failed")
        => /\ req[r].status >= 400
           /\ req[r].data = <<>>

C11_Witness ==
    \E r \in Reqs :
        /\ req[r].op = "rec" /\ req[r].pc = "done"
        /\ Len(req[r].cst) = 2
        /\ req[r].cst[1] = "done" /\ req[r].cst[2] = "failed"
        /\ InPlantsSet(req[r].uid, req[r].saved[1])
        /\ req[r].status = 500

(* the fields a plant object of the AI response must have by the claim *)
ClaimedFields == {"name", "description", "successRate", "steps", "difficultyLevel"}

(* C12 as claimed: a recommendations request of an authenticated user with
   all survey fields, whose AI response is an array of N >= 1 plant objects
   that each have the five claimed fields, at least one step and titled
   steps, is answered 200 with N records in data, each of them stored and
   referenced in the caller's plants set. *)
C12_WellFormedBatchSucceeds ==
    \A r \in Reqs :
        (/\ req[r].op = "rec" /\ req[r].pc = "done"
         /\ req[r].uid \in Uids /\ req[r].survey # 0
         /\ req[r].ai # <<>>
         /\ \A i \in DOMAIN req[r].ai :
               /\ req[r].ai[i].missing \notin ClaimedFields
               /\ req[r].ai[i].steps # <<>>
               /\ \A j \in DOMAIN req[r].ai[i].steps : req[r].ai[i].steps[j].title # "")
        => /\ req[r].status = 200
           /\ Len(req[r].data) = Len(req[r].ai)
           /\ \A i \in DOMAIN req[r].data :
                 /\ req[r].data[i] \in 1..Len(plants)
                 /\ InPlantsSet(req[r].uid, req[r].data[i])

(* C13 as claimed: a per-plant operation of an authenticated principal whose
   plant identifier is not a well-formed document id is answered 404. *)
C13_MalformedIdNotFound ==
    \A r \in Reqs :
        (/\ req[r].op \in PlantOps /\ req[r].pc = "done"
         /\ req[r].uid \in Uids /\ req[r].pid = BadId)
        => req[r].status = 404

(* C14 as claimed: a request that carries no valid bearer token is answered
   401 in its first step, before any other check, and that step reads,
   creates or changes no user or plant record and makes no AI call. *)
C14_AuthenticationFirst ==
    [][\A r \in Reqs :
         (req[r].pc = "idle" /\ req'[r].pc # "idle" /\ ~req'[r].token)
         => /\ req'[r].pc = "done"
            /\ req'[r].status = 401
            /\ req'[r].ai = <<>>
            /\ users' = users
            /\ plants' = plants]_vars

(* the error of a request whose AI response text could not be understood *)
ParseFailures ==
    {"unparsable", "unparsable403", "unparsableKey"}
    \cup {MissingFieldError(f) : f \in ClaimedFields \cup {"imageUrl"}}

(* C15 as claimed: a request whose AI response text cannot be understood is
   answered 422, whatever the text and whatever the parser's message. *)
C15_UnparsableIs422 ==
    \A r \in Reqs :
        (req[r].pc = "done" /\ req[r].error \in ParseFailures)
        => req[r].status = 422

(* C16 as claimed: a recommendations request that found no profile of its
   identity creates one, a request that found one overwrites the survey
   fields, and in both cases the request goes on to the AI call, also when
   another first request of the same identity has created the profile in
   between. *)
C16_FirstRequestsSucceed ==
    [][\A r \in Reqs :
         (req[r].op = "rec" /\ req[r].pc = "saveUser" /\ req'[r] # req[r])
         => /\ req'[r].pc = "ai"
            /\ users'[req[r].uid].exists
            /\ users'[req[r].uid].survey = req[r].survey]_vars

(* C17: the active-plants listing of an authenticated user holds, once each,
   exactly the stored plants that are in that user's plants set and have
   isActive true, and is empty when the user has no profile. *)
C17_ActiveListExact ==
    \A r \in Reqs :
        (req[r].op = "active" /\ req[r].pc = "done" /\ req[r].uid \in Uids)
        => /\ req[r].status = 200
           /\ Range(req[r].data)
                = {p \in 1..Len(plants) :
                      InPlantsSet(req[r].uid, p) /\ plants[p].isActive}
           /\ Cardinality(Range(req[r].data)) = Len(req[r].data)
           /\ ~users[req[r].uid].exists => req[r].data = <<>>

C17_Witness ==
    \E r \in Reqs : \E p, q \in 1..Len(plants) :
        /\ req[r].op = "active" /\ req[r].pc = "done" /\ req[r].uid \in Uids
        /\ req[r].data = <<p>>
        /\ InPlantsSet(req[r].uid, q) /\ ~plants[q].isActive

(* C18 as claimed: a mark-step-completed request answered 200 leaves the
   step list with isCompleted true on every step whose id is the requested
   id and every other step, the order of the steps and isActive as they
   were; a request answered 404 leaves the plant store as it was. *)
C18_MarksTheRequestedStep ==
    [][\A r \in Reqs :
         (req[r].op = "mark" /\ req[r].pc \in {"find", "save"} /\ req'[r].pc = "done")
         => LET p == req[r].pid
                s == req'[r].sid
            IN /\ req'[r].status = 404 => plants' = plants
               /\ req'[r].status = 200
                  => /\ Len(plants') = Len(plants)
                     /\ \A q \in 1..Len(plants) : q # p => plants'[q] = plants[q]
                     /\ plants'[p].isActive = plants[p].isActive
                     /\ Len(plants'[p].steps) = Len(plants[p].steps)
                     /\ \A j \in DOMAIN plants[p].steps :
                           /\ SameStep(plants'[p].steps[j], plants[p].steps[j])
                           /\ plants'[p].steps[j].id = plants[p].steps[j].id
                           /\ IF plants[p].steps[j].id = s
                              THEN plants'[p].steps[j].isCompleted
                              ELSE plants'[p].steps[j].isCompleted
                                     = plants[p].steps[j].isCompleted]_vars

(* C19: a diagnose request whose analysis says that no treatment is needed,
   with or without treatment steps in it, is answered 200 in the step that
   reads the analysis, and no step of the request changes the plant store:
   step list and isActive of the plant stay as they were. *)
C19_HealthyLeavesPlant ==
    [][\A r \in Reqs :
         (/\ req'[r].op = "diag" /\ req'[r] # req[r]
          /\ req'[r].ai # <<>> /\ req'[r].ai[1].kind = "healthy")
         => /\ req'[r].pc = "done"
            /\ req'[r].status = 200
            /\ plants' = plants]_vars

C19_Witness ==
    \E r \in Reqs :
        /\ req[r].op = "diag" /\ req[r].pc = "done" /\ req[r].status = 200
        /\ req[r].ai # <<>> /\ req[r].ai[1].kind = "healthy" /\ req[r].ai[1].k > 0
        /\ req[r].pid \in 1..Len(plants)
        /\ \E i \in DOMAIN plants[req[r].pid].steps :
              plants[req[r].pid].steps[i].isCompleted

(* C20 as claimed: when a diagnose request writes k new steps to a plant
   none of whose steps is completed, the new list is the k new steps
   followed by every step of the old list in its old order, so that it has
   the old length plus k. *)
C20_NewStepsAtHead ==
    [][\A r \in Reqs :
         (DiagWrote(r) /\ LastDonePos(plants[req[r].pid].steps) = 0)
         => LET old == plants[req[r].pid].steps
                new == plants'[req[r].pid].steps
                k == req[r].ai[1].k
            IN /\ Len(new) = Len(old) + k
               /\ \A i \in 1..k : new[i].gen = plants'[req[r].pid].v /\ new[i].n = i
               /\ \A i \in DOMAIN old : SameStep(new[k + i], old[i])]_vars

(* C21 as claimed: once the response of a request is sent, no step of that
   request changes the user store or the plant store. *)
C21_NothingAfterResponse ==
    [][\A r \in Reqs :
         (req[r].status # 0 /\ req'[r] # req[r])
         => /\ users' = users
            /\ plants' = plants]_vars

(* C22: when every candidate of a batch that is answered as failed has
   settled, each candidate whose own save and push did not fail is stored
   and referenced in the user's plants set: the failure of one candidate
   neither stops nor rolls back the others. *)
C22_FailedBatchKeepsOthers ==
    \A r \in Reqs :
        (req[r].op = "rec" /\ req[r].pc = "done" /\ req[r].status >= 400)
        => \A i \in DOMAIN req[r].cst :
              req[r].cst[i] = "done"
              => /\ req[r].saved[i] \in 1..Len(plants)
                 /\ InPlantsSet(req[r].uid, req[r].saved[i])

C22_Witness ==
    \E r \in Reqs :
        /\ req[r].op = "rec" /\ req[r].pc = "done" /\ req[r].status = 500
        /\ Len(req[r].cst) = 2
        /\ req[r].cst[1] = "failed" /\ req[r].cst[2] = "done"
        /\ req[r].saved[2] \in 1..Len(plants)
        /\ InPlantsSet(req[r].uid, req[r].saved[2])
        /\ req[r].data = <<>>

(* C23 as claimed: a request whose AI response has a plant object that lacks
   one of the required fields is answered with an error that names that
   field: it is not the error answered for an object that lacks another
   of the required fields. *)
C23_MissingFieldNamed ==
    \A r \in Reqs :
        (/\ req[r].op \in {"rec", "custom"} /\ req[r].pc = "done"
         /\ req[r].status = 422 /\ req[r].ai # <<>>
         /\ req[r].ai[1].missing \in ClaimedFields)
        => \A g \in ClaimedFields \ {req[r].ai[1].missing} :
              req[r].error # MissingFieldError(g)

(* C24 as claimed: a custom-plant request whose AI response parses to an
   object is answered 400 exactly when the object carries isValid false; an
   object with all required fields and no isValid key is stored and answered
   200; an object with neither isValid nor the required fields is answered
   as a parse failure (422). *)
C24_RejectedOnlyOnExplicitFalse ==
    \A r \in Reqs :
        (req[r].op = "custom" /\ req[r].pc = "done" /\ req[r].ai # <<>>)
        => /\ req[r].status = 400 <=> req[r].ai[1].isValid = "false"
           /\ (req[r].ai[1].isValid = "absent" /\ req[r].ai[1].missing = "none"
                 /\ Validates(req[r].ai[1]))
              => req[r].status = 200 /\ req[r].data # <<>>
           /\ (req[r].ai[1].isValid = "absent" /\ req[r].ai[1].missing # "none")
              => req[r].status = 422

(* C25: in every interleaving of a toggle-activation request and a
   mark-step-completed request on one plant, the save of the toggle writes
   the negation of the isActive it read and leaves the steps and the
   document version as they are stored, so that it neither undoes nor fails
   the completion; the save of a completion that comes after writes of
   toggles only (the version is the one it read) is answered 200 and leaves
   the step completed and isActive as it is stored. *)
C25_MarkAndToggleIndependent ==
    [][\A r \in Reqs :
         LET p == req[r].pid IN
         /\ (req[r].op = "toggle" /\ req[r].pc = "save" /\ req'[r].pc = "done")
            => /\ req'[r].status = 200
               /\ plants' = [plants EXCEPT ![p].isActive = ~req[r].snap.isActive]
         /\ (req[r].op = "mark" /\ req[r].pc = "save" /\ req'[r].pc = "done"
               /\ plants[p].v = req[r].snap.v)
            => /\ req'[r].status = 200
               /\ plants'[p].isActive = plants[p].isActive
               /\ plants'[p].steps[StepIndex(req[r].snap.steps, req[r].sid)].isCompleted
               /\ \A q \in 1..Len(plants) : q # p => plants'[q] = plants[q]]_vars

(* the toggle has written between the read and the write of a completion
   that then finds the step pending *)
C25_Witness ==
    \E r, t \in Reqs :
        /\ req[r].op = "mark" /\ req[r].pc = "save"
        /\ ~req[r].snap.steps[StepIndex(req[r].snap.steps, req[r].sid)].isCompleted
        /\ req[t].op = "toggle" /\ req[t].pc = "done" /\ req[t].status = 200
        /\ req[t].pid = req[r].pid
        /\ plants[req[r].pid].isActive # req[r].snap.isActive
        /\ plants[req[r].pid].v = req[r].snap.v

(* C26 as claimed: every toggle-activation request answered 200 flips the
   stored isActive, so that after n of them it is the initial value flipped
   n times, also when the requests overlap; and it changes nothing else of
   the plant. *)
C26_EachToggleFlips ==
    [][\A r \in Reqs :
         (req[r].op = "toggle" /\ req[r].pc = "save" /\ req'[r].status = 200)
         => plants' = [plants EXCEPT ![req[r].pid].isActive = ~plants[req[r].pid].isActive]]_vars

(* C27: with requests one after the other, every step of every stored plant
   has an id that is at least its 1-based position in the list, and a
   diagnose request that writes the step list keeps every step that was
   completed, still completed. *)
C27_DiagnoseKeepsCompleted ==
    [][/\ \A p \in 1..Len(plants') : \A i \in DOMAIN plants'[p].steps :
             plants'[p].steps[i].id >= i
       /\ \A r \in Reqs :
             DiagWrote(r)
             => \A i \in DOMAIN plants[req[r].pid].steps :
                   plants[req[r].pid].steps[i].isCompleted
                   => \E j \in DOMAIN plants'[req[r].pid].steps :
                         /\ SameStep(plants[req[r].pid].steps[i],
                                     plants'[req[r].pid].steps[j])
                         /\ plants'[req[r].pid].steps[j].isCompleted]_vars

(* a second diagnose has cut at an id that is larger than the position *)
C27_Witness ==
    \E p \in 1..Len(plants) :
        /\ plants[p].v >= 2
        /\ Len(plants[p].steps) >= 2
        /\ plants[p].steps[1].isCompleted
        /\ plants[p].steps[1].id > 1
        /\ plants[p].steps[1].gen # plants[p].steps[2].gen

(* C28: in every reachable state each identifier in a user's plants set is
   that of a stored plant, no identifier is in the sets of two users or
   twice in one set, and no per-plant request has been answered
   'Plant not found'. *)
C28_ReferencesResolve ==
    /\ \A u \in Uids : \A i \in DOMAIN users[u].plants :
          /\ users[u].plants[i] \in 1..Len(plants)
          /\ \A w \in Uids : \A j \in DOMAIN users[w].plants :
                users[w].plants[j] = users[u].plants[i] => (w = u /\ j = i)
    /\ \A r \in Reqs :
          req[r].op \in PlantOps => req[r].error # "Plant not found"

C28_Witness ==
    /\ \A u \in Uids : users[u].exists /\ users[u].plants # <<>>
    /\ \E r \in Reqs :
          /\ req[r].op = "detail" /\ req[r].pc = "done" /\ req[r].status = 200
          /\ InPlantsSet(req[r].uid, req[r].pid)

(* a stored plant that is in no user's plants set *)
Unreferenced(p) == p \in 1..Len(plants) /\ \A u \in Uids : ~InPlantsSet(u, p)

(* no step of a custom-plant request changes a plants set, a reference that
   comes into a set is that of a plant the pushing batch has saved itself,
   and no listing holds a plant that is in no set *)
CustomPlantStaysOut ==
    /\ \A r \in Reqs :
          (req[r].op = "custom" /\ req'[r] # req[r]) => users' = users
    /\ \A u \in Uids : \A i \in DOMAIN users'[u].plants :
          (~InPlantsSet(u, users'[u].plants[i]))
          => \E r \in Reqs : \E j \in DOMAIN req[r].saved :
                req[r].op = "rec" /\ req[r].saved[j] = users'[u].plants[i]
    /\ \A r \in Reqs :
          (req[r].pc = "idle" /\ req'[r].op = "active")
          => \A i \in DOMAIN req'[r].data : ~Unreferenced(req'[r].data[i])

(* the first step of a per-plant request of an authenticated principal on a
   stored plant that is in no set *)
OnUnreferenced(r) ==
    /\ req[r].pc = "idle" /\ req'[r].op \in PlantOps
    /\ req'[r].uid \in Uids /\ Unreferenced(req'[r].pid)

(* C29 as claimed: a plant stored by a custom-plant request never comes into
   a plants set, and every per-plant request on it is answered 403, the
   plant unchanged, and no listing holds it. *)
C29_CustomPlantForbidden ==
    [][/\ CustomPlantStaysOut
       /\ \A r \in Reqs :
             OnUnreferenced(r)
             => /\ req'[r].pc = "done"
                /\ req'[r].status = 403
                /\ plants' = plants]_vars

(* C29 amended: a plant stored by a custom-plant request never comes into a
   plants set, and every per-plant request on it is answered 403, or 400
   when it is a diagnose request without image data, the plant unchanged,
   and no listing holds it. *)
C29_CustomPlantOutOfReach ==
    [][/\ CustomPlantStaysOut
       /\ \A r \in Reqs :
             OnUnreferenced(r)
             => /\ req'[r].pc = "done"
                /\ req'[r].status
                     = (IF req'[r].op = "diag" /\ ~req'[r].img THEN 400 ELSE 403)
                /\ plants' = plants]_vars

(* the caller has a profile with plants and is refused a plant that a
   custom-plant request has stored *)
C29_Witness ==
    \E r \in Reqs :
        /\ req[r].op = "toggle" /\ req[r].pc = "done" /\ req[r].status = 403
        /\ req[r].uid \in Uids /\ users[req[r].uid].plants # <<>>
        /\ Unreferenced(req[r].pid)

(* C30: a recommendations request answered 400 for a missing or zero-valued
   survey field leaves the user store and the plant store as they were; a
   request that fails later, at the AI call, at the parsing or at a save, is
   answered while the profile of its user exists with the survey fields of
   this request, and the failure does not change the user store. *)
C30_FailureKeepsProfile ==
    [][\A r \in Reqs :
         LET b == req'[r] IN
         /\ (req[r].pc = "idle" /\ b.op = "rec" /\ b.uid \in Uids /\ b.survey = 0)
            => /\ b.pc = "done" /\ b.status = 400
               /\ users' = users /\ plants' = plants
         /\ (req[r].op = "rec" /\ req[r].pc \in {"ai", "batch"}
               /\ req[r].status = 0 /\ b.status >= 400)
            => /\ users' = users
               /\ users'[b.uid].exists
               /\ users'[b.uid].survey = b.survey
               /\ b.survey # 0]_vars

(* the AI response of a request did not parse and the profile, which was
   there before, has the survey fields of that request *)
C30_Witness ==
    \E r \in Reqs :
        /\ req[r].op = "rec" /\ req[r].pc = "done" /\ req[r].status = 422
        /\ req[r].found
        /\ req[r].survey = MaxSurvey + 1
        /\ users[req[r].uid].survey = req[r].survey
        /\ users[req[r].uid].plants # <<>>
====
